---- MODULE Spec2Model ----
(***************************************************************************)
(* Model of packages/ccode/flight_search_ctrip.py: the search_flights      *)
(* pipeline, handle_popups, extract_flight_info and                        *)
(* extract_generic_flight_info.  The browser and the page are the          *)
(* environment: every awaited Playwright call either returns one of its    *)
(* possible values or raises, chosen nondeterministically.                 *)
(* Text is a sequence of one-character strings.                            *)
(***************************************************************************)
EXTENDS Integers, Sequences, FiniteSets, TLC

VARIABLES
    pc,              \* position of the run in search_flights and its callees
    browser,         \* "none" | "open" | "closed"
    pending,         \* an exception is propagating out of the except block
    outcome,         \* "running" | "returned" | "raised": how search_flights ended
    trace,           \* run-level events, in the order they happened
    printed,         \* report forms printed so far: subset of {"list", "empty"}
    extracted,       \* "none" | "empty" | "nonempty": what extract_flight_info returned
    hp_ret,          \* handle_popups: where the caller continues
    hp_i,            \* handle_popups: index of the next selector pattern
    hp_log,          \* handle_popups: per attempted pattern, what happened
    sb_i,            \* submit step: index of the next candidate selector
    sb_log,          \* submit step: per candidate tried, what happened
    sel_i,           \* extract_flight_info: index of the next card selector
    flight_elements, \* extract_flight_info: the matched card elements
    ei,              \* extract_flight_info: index of the next element
    last,            \* extract_flight_info: what processing the last element did
    flights,         \* extract_flight_info: the result sequence
    structured,      \* number of records the structured phase produced
    fallback,        \* extract_generic_flight_info was invoked
    body,            \* extract_generic_flight_info: the inner_text("body") read
    generic_out      \* extract_generic_flight_info: its return value

vars == <<pc, browser, pending, outcome, trace, printed, extracted,
          hp_ret, hp_i, hp_log, sb_i, sb_log,
          sel_i, flight_elements, ei, last, flights, structured, fallback,
          body, generic_out>>

runVars == <<browser, pending, outcome, printed, extracted>>
popupVars == <<hp_ret, hp_i, hp_log>>
submitVars == <<sb_i, sb_log>>
extractVars == <<sel_i, flight_elements, ei, last, flights, structured, fallback,
                 body, generic_out>>

\* ------------------------------------------------------------------ bounds

MaxPopupElems == 2
MaxMixedCards == 3
MaxCards == 21
MaxFlightNos == 11

\* ------------------------------------------------------- program constants

NumPopupPatterns == 5
NumSearchSelectors == 5
NumCardSelectors == 6
MaxFlights == 20
MaxGeneric == 10

\* ------------------------------------------------------------ text helpers


Whitespace == {" "}
Digits == {"0", "1", "2", "3", "4", "5", "6", "7", "8", "9"}

RECURSIVE LStrip(_)
LStrip(s) ==
    IF s # <<>> /\ Head(s) \in Whitespace THEN LStrip(Tail(s)) ELSE s

RECURSIVE RStrip(_)
RStrip(s) ==
    IF s # <<>> /\ s[Len(s)] \in Whitespace
    THEN RStrip(SubSeq(s, 1, Len(s) - 1))
    ELSE s

Strip(s) == RStrip(LStrip(s))

RECURSIVE SplitAcc(_, _, _)
SplitAcc(s, cur, parts) ==
    IF s = <<>>
    THEN IF cur = <<>> THEN parts ELSE Append(parts, cur)
    ELSE IF Head(s) \in Whitespace
         THEN SplitAcc(Tail(s), <<>>, IF cur = <<>> THEN parts ELSE Append(parts, cur))
         ELSE SplitAcc(Tail(s), Append(cur, Head(s)), parts)

Split(s) == SplitAcc(s, <<>>, <<>>)

RECURSIVE RemoveChar(_, _)
RemoveChar(s, c) ==
    IF s = <<>> THEN <<>>
    ELSE IF Head(s) = c THEN RemoveChar(Tail(s), c)
         ELSE <<Head(s)>> \o RemoveChar(Tail(s), c)

RECURSIVE TakeDigits(_)
TakeDigits(s) ==
    IF s # <<>> /\ Head(s) \in Digits
    THEN <<Head(s)>> \o TakeDigits(Tail(s))
    ELSE <<>>

RECURSIVE FirstDigitRun(_)
FirstDigitRun(s) ==
    IF s = <<>> THEN <<>>
    ELSE IF Head(s) \in Digits THEN TakeDigits(s)
         ELSE FirstDigitRun(Tail(s))

\* dict helpers: a record of the program is a function from the keys set so far
Put(d, k, v) == [x \in DOMAIN d \cup {k} |-> IF x = k THEN v ELSE d[x]]
Truthy(d, k) == k \in DOMAIN d /\ d[k] # <<>>
EmptyDict == <<>>

\* nothing processed yet / nothing read yet
NoLast == [elem |-> 0, info |-> <<>>, attempted |-> <<>>, raised |-> 0, kept |-> FALSE]
NoBody == [ok |-> FALSE, text |-> <<>>]

\* ------------------------------------------------------------------- Init

Init ==
    /\ pc = "start"
    /\ browser = "none"
    /\ pending = FALSE
    /\ outcome = "running"
    /\ trace = <<>>
    /\ printed = {}
    /\ extracted = "none"
    /\ hp_ret = "none"
    /\ hp_i = 0
    /\ hp_log = <<>>
    /\ sb_i = 0
    /\ sb_log = <<>>
    /\ sel_i = 0
    /\ flight_elements = <<>>
    /\ ei = 0
    /\ last = NoLast
    /\ flights = <<>>
    /\ structured = 0
    /\ fallback = FALSE
    /\ body = NoBody
    /\ generic_out = <<>>

\* an exception escapes search_flights
Escape ==
    /\ pc' = "done"
    /\ outcome' = "raised"

\* --------------------------------------------------------- session bootstrap

Launch ==
    /\ pc = "start"
    /\ trace' = Append(trace, "launch")
    /\ \E r \in {"ok", "raises"} :
         IF r = "ok"
         THEN /\ browser' = "open"
              /\ pc' = "new_context"
              /\ outcome' = outcome
         ELSE /\ browser' = browser
              /\ Escape
    /\ UNCHANGED <<pending, printed, extracted, popupVars, submitVars, extractVars>>

\* new_context and new_page sit before the try statement: a failure escapes
\* through the async-with block only.
NewContext ==
    /\ pc = "new_context"
    /\ trace' = Append(trace, "new_context")
    /\ \E r \in {"ok", "raises"} :
         IF r = "ok"
         THEN pc' = "new_page" /\ outcome' = outcome
         ELSE Escape
    /\ UNCHANGED <<browser, pending, printed, extracted, popupVars, submitVars,
                   extractVars>>

NewPage ==
    /\ pc = "new_page"
    /\ trace' = Append(trace, "new_page")
    /\ \E r \in {"ok", "raises"} :
         IF r = "ok"
         THEN pc' = "goto1" /\ outcome' = outcome
         ELSE Escape
    /\ UNCHANGED <<browser, pending, printed, extracted, popupVars, submitVars,
                   extractVars>>

\* ----------------------------------------------------------------- navigator

\* page.goto(..., timeout=60000) followed by the 3 s settle delay
\* where a goto that times out continues: no try encloses it but the top-level one
NavTimeoutSwallowed(next) == next
NavTimeoutTarget(next) == "handler"

Navigate(here, name, next) ==
    /\ pc = here
    /\ \E r \in {"ok", "timeout", "settle_raises"} :
         /\ trace' = IF r = "timeout"
                     THEN trace \o <<name, "nav_timeout">>
                     ELSE Append(trace, name)
         /\ pc' = CASE r = "ok" -> next
                     [] r = "timeout" -> NavTimeoutTarget(next)
                     [] r = "settle_raises" -> "handler"
    /\ UNCHANGED <<runVars, popupVars, submitVars, extractVars>>

Goto1 == Navigate("goto1", "goto1", "popups1")
Goto2 == Navigate("goto2", "goto2", "popups2")

\* ------------------------------------------------------------ handle_popups

PopupElem == {"hidden", "clicked", "visible_raises", "click_raises", "settle_raises"}

\* what locator(selector).all() and the elements it returns can do
PopupLists == UNION {[1..n -> PopupElem] : n \in 0..MaxPopupElems}

\* the inner loop over the elements of one pattern: stops at the first raise
RECURSIVE PopupElements(_, _)
PopupElements(elems, clicked) ==
    IF elems = <<>> THEN [clicked |-> clicked, failed |-> FALSE]
    ELSE LET e == Head(elems) IN
         IF e = "hidden" THEN PopupElements(Tail(elems), clicked)
         ELSE IF e = "clicked" THEN PopupElements(Tail(elems), TRUE)
         ELSE IF e = "settle_raises" THEN [clicked |-> TRUE, failed |-> TRUE]
         ELSE [clicked |-> clicked, failed |-> TRUE]

\* the bare except clause of the pattern loop
HandlePopupsExceptReraise == "raise"
HandlePopupsExcept == "pass"

CallPopups(here, ret) ==
    /\ pc = here
    /\ pc' = "hp_loop"
    /\ hp_ret' = ret
    /\ hp_i' = 1
    /\ hp_log' = <<>>
    /\ trace' = Append(trace, "popups")
    /\ UNCHANGED <<runVars, submitVars, extractVars>>

Popups1 == CallPopups("popups1", "goto2")
Popups2 == CallPopups("popups2", "fill_depart")
Popups3 == CallPopups("popups3", "extract")

HPPattern ==
    /\ pc = "hp_loop"
    /\ hp_i <= NumPopupPatterns
    /\ \E all_raises \in BOOLEAN, o \in PopupLists :
         LET r == IF all_raises
                  THEN [clicked |-> FALSE, failed |-> TRUE]
                  ELSE PopupElements(o, FALSE)
         IN /\ hp_log' = Append(hp_log, [pattern |-> hp_i, clicked |-> r.clicked,
                                         failed |-> r.failed])
            /\ IF r.failed /\ HandlePopupsExcept # "pass"
               THEN pc' = "handler" /\ hp_i' = hp_i
               ELSE pc' = pc /\ hp_i' = hp_i + 1
    /\ UNCHANGED <<runVars, trace, hp_ret, submitVars, extractVars>>

HPReturn ==
    /\ pc = "hp_loop"
    /\ hp_i > NumPopupPatterns
    /\ pc' = hp_ret
    /\ hp_ret' = "none"
    /\ hp_i' = 0
    /\ hp_log' = <<>>
    /\ UNCHANGED <<runVars, trace, submitVars, extractVars>>

\* ---------------------------------------------------- form filler / submitter

\* one city field: locate, is_visible, click, fill, Enter; any failure is printed
FillField(here, name, next) ==
    /\ pc = here
    /\ \E r \in {"filled", "not_visible", "raises"} : pc' = next
    /\ trace' = Append(trace, name)
    /\ UNCHANGED <<runVars, popupVars, submitVars, extractVars>>

FillDepart == FillField("fill_depart", "fill_depart", "fill_arrive")
FillArrive == FillField("fill_arrive", "fill_arrive", "submit")

SubmitStart ==
    /\ pc = "submit"
    /\ pc' = "submit_loop"
    /\ sb_i' = 1
    /\ sb_log' = <<>>
    /\ trace' = Append(trace, "submit")
    /\ UNCHANGED <<runVars, popupVars, extractVars>>

\* the statement after a click that returned
SubmitAfterClickContinue == "continue"
SubmitAfterClick == "break"

SubmitCandidate ==
    /\ pc = "submit_loop"
    /\ sb_i <= NumSearchSelectors
    /\ \E r \in {"locator_raises", "not_visible", "visible_raises", "click_ok",
                 "click_raises"} :
         LET what == IF r \in {"click_ok", "click_raises"} THEN r ELSE "no_click" IN
         /\ sb_log' = Append(sb_log, [cand |-> sb_i, what |-> what])
         /\ IF r = "click_ok" /\ SubmitAfterClick = "break"
            THEN pc' = "wait_results" /\ sb_i' = 0
            ELSE pc' = pc /\ sb_i' = sb_i + 1
    /\ UNCHANGED <<runVars, trace, popupVars, extractVars>>

SubmitExhausted ==
    /\ pc = "submit_loop"
    /\ sb_i > NumSearchSelectors
    /\ pc' = "wait_results"
    /\ sb_i' = 0
    /\ UNCHANGED <<runVars, trace, popupVars, sb_log, extractVars>>

\* the 5 s wait, then wait_for_selector(timeout=30000) whose timeout is caught
WaitResults ==
    /\ pc = "wait_results"
    /\ \E r \in {"found", "selector_timeout", "raises"} :
         pc' = IF r = "raises" THEN "handler" ELSE "popups3"
    /\ trace' = Append(trace, "wait")
    /\ sb_log' = <<>>
    /\ UNCHANGED <<runVars, popupVars, sb_i, extractVars>>

\* ------------------------------------------------------ extract_flight_info

\* The DOM of a card element, as the six sub-reads see it: the text (or list
\* of texts) each call returns, and in fails the sub-reads whose awaited call
\* raises.  locator(...).first.text_content() raises a timeout when no element
\* matches; all_text_contents() returns the empty list then.  "$" stands for
\* the currency glyph.
CardKinds == {"full", "basic", "norate", "nameonly", "priceonly", "noairline",
              "emptytext"}

TxtAirline == <<"H", "N", "A", " ", "H", "U", "7", "1", "8", "1">>
TxtName == <<"H", "N", "A">>
TxtDep == <<" ", "0", "8", ":", "3", "0">>
TxtArr == <<"1", "2", ":", "4", "5", " ">>
TxtHak == <<"H", "A", "K">>
TxtPek == <<"P", "E", "K">>
TxtPrice == <<"$", "1", ",", "2", "3", "0", " ", "u", "p">>
TxtNoPrice == <<"-", "-">>
TxtCraft == <<"7", "3", "8">>
TxtRate == <<"9", "5", "%">>

WellFormed ==
    [airline |-> TxtAirline, times |-> <<TxtDep, TxtArr>>,
     airports |-> <<TxtHak, TxtPek>>, price |-> TxtPrice,
     craft |-> TxtCraft, rate |-> TxtRate, fails |-> {}]

Card(kind) ==
    CASE kind = "full" -> WellFormed
      [] kind = "basic" -> [WellFormed EXCEPT !.craft = <<>>, !.rate = <<>>, !.fails = {"craft", "rate"}]
      [] kind = "norate" -> [WellFormed EXCEPT !.rate = <<>>, !.fails = {"rate"}]
      [] kind = "nameonly" ->
           [WellFormed EXCEPT !.airline = TxtName, !.times = <<TxtDep>>,
                              !.airports = <<>>, !.price = TxtNoPrice]
      [] kind = "priceonly" ->
           [WellFormed EXCEPT !.airline = <<" ">>, !.times = <<>>,
                              !.craft = <<>>, !.rate = <<>>]
      [] kind = "noairline" -> [WellFormed EXCEPT !.airline = <<>>, !.fails = {"airline"}]
      [] kind = "emptytext" ->
           [WellFormed EXCEPT !.airline = <<>>, !.price = <<>>]

\* pages: every short sequence of cards, and long uniform pages past the cap
RECURSIVE Repeat(_, _)
Repeat(x, n) == IF n = 0 THEN <<>> ELSE <<x>> \o Repeat(x, n - 1)

PageCards ==
    (UNION {[1..n -> CardKinds] : n \in 1..MaxMixedCards})
    \cup {Repeat(k, n) : k \in CardKinds, n \in 1..MaxCards}

Ok(info) == [raised |-> FALSE, info |-> info]
Fail(info) == [raised |-> TRUE, info |-> info]

ReadAirline(card, info) ==
    IF "airline" \in card.fails THEN Fail(info)
    ELSE IF card.airline # <<>>
         THEN LET parts == Split(Strip(card.airline)) IN
              Ok(Put(Put(info, "airline", IF parts # <<>> THEN parts[1] ELSE <<>>),
                     "flight_no", IF Len(parts) > 1 THEN parts[2] ELSE <<>>))
         ELSE Ok(info)

ReadTimes(card, info) ==
    IF "times" \in card.fails THEN Fail(info)
    ELSE IF Len(card.times) >= 2
         THEN Ok(Put(Put(info, "depart_time", Strip(card.times[1])),
                     "arrive_time", Strip(card.times[2])))
         ELSE Ok(info)

ReadAirports(card, info) ==
    IF "airports" \in card.fails THEN Fail(info)
    ELSE IF Len(card.airports) >= 2
         THEN Ok(Put(Put(info, "depart_airport", Strip(card.airports[1])),
                     "arrive_airport", Strip(card.airports[2])))
         ELSE Ok(info)

ReadPrice(card, info) ==
    IF "price" \in card.fails THEN Fail(info)
    ELSE IF card.price # <<>>
         THEN Ok(Put(info, "price", FirstDigitRun(RemoveChar(card.price, ","))))
         ELSE Ok(info)

ReadCraft(card, info) ==
    IF "craft" \in card.fails THEN Fail(info)
    ELSE Ok(Put(info, "aircraft", Strip(card.craft)))

ReadRate(card, info) ==
    IF "rate" \in card.fails THEN Fail(info)
    ELSE Ok(Put(info, "on_time_rate", Strip(card.rate)))

SubReads == <<"airline", "times", "airports", "price", "craft", "rate">>

SubRead(k, card, info) ==
    CASE k = 1 -> ReadAirline(card, info)
      [] k = 2 -> ReadTimes(card, info)
      [] k = 3 -> ReadAirports(card, info)
      [] k = 4 -> ReadPrice(card, info)
      [] k = 5 -> ReadCraft(card, info)
      [] k = 6 -> ReadRate(card, info)

\* the body of the element loop up to the keep test: one try statement spans
\* the six sub-reads, so the first one that raises ends the element
RECURSIVE ReadFrom(_, _, _, _)
ReadFrom(k, card, info, attempted) ==
    IF k > Len(SubReads) THEN [info |-> info, attempted |-> attempted, raised |-> 0]
    ELSE LET r == SubRead(k, card, info) IN
         IF r.raised
         THEN [info |-> r.info, attempted |-> Append(attempted, k), raised |-> k]
         ELSE ReadFrom(k + 1, card, r.info, Append(attempted, k))

ReadCard(card) == ReadFrom(1, card, EmptyDict, <<>>)

\* the keep test before flights.append
KeepAlways(info) == TRUE
KeepTest(info) == Truthy(info, "flight_no") \/ Truthy(info, "price")

\* page.content() at the top of extract_flight_info is outside every try
ExtractStart ==
    /\ pc = "extract"
    /\ trace' = Append(trace, "extract")
    /\ \E r \in {"ok", "raises"} :
         IF r = "ok"
         THEN pc' = "cascade" /\ sel_i' = 1
         ELSE pc' = "handler" /\ sel_i' = sel_i
    /\ flights' = <<>>
    /\ UNCHANGED <<runVars, popupVars, submitVars, flight_elements, ei, last,
                   structured, fallback, body, generic_out>>

TrySelector ==
    /\ pc = "cascade"
    /\ sel_i <= NumCardSelectors
    /\ \/ \E r \in {"raises", "empty"} :
              /\ sel_i' = sel_i + 1
              /\ UNCHANGED <<pc, flight_elements, ei>>
       \/ \E cards \in PageCards :
              /\ flight_elements' = cards
              /\ sel_i' = 0
              /\ ei' = 1
              /\ pc' = "elements"
    /\ UNCHANGED <<runVars, trace, popupVars, submitVars, last, flights, structured,
                   fallback, body, generic_out>>

CascadeExhausted ==
    /\ pc = "cascade"
    /\ sel_i > NumCardSelectors
    /\ sel_i' = 0
    /\ ei' = 1
    /\ pc' = "elements"
    /\ UNCHANGED <<runVars, trace, popupVars, submitVars, flight_elements, last,
                   flights, structured, fallback, body, generic_out>>

Min(a, b) == IF a < b THEN a ELSE b

\* flight_elements[:20]
Processed == Min(Len(flight_elements), MaxFlights)

ProcessElement ==
    /\ pc = "elements"
    /\ ei <= Processed
    /\ LET r == ReadCard(Card(flight_elements[ei]))
           kept == r.raised = 0 /\ KeepTest(r.info)
       IN /\ last' = [elem |-> ei, info |-> r.info, attempted |-> r.attempted,
                      raised |-> r.raised, kept |-> kept]
          /\ flights' = IF kept THEN Append(flights, r.info) ELSE flights
    /\ ei' = ei + 1
    /\ UNCHANGED <<pc, runVars, trace, popupVars, submitVars, sel_i, flight_elements,
                   structured, fallback, body, generic_out>>

\* if not flights: fall back to the generic extractor
StructuredDone ==
    /\ pc = "elements"
    /\ ei > Processed
    /\ structured' = Len(flights)
    /\ IF flights = <<>>
       THEN pc' = "fallback" /\ fallback' = TRUE
       ELSE pc' = "extract_done" /\ fallback' = FALSE
    /\ UNCHANGED <<runVars, trace, popupVars, submitVars, sel_i, flight_elements, ei,
                   last, flights, body, generic_out>>

\* ---------------------------------------------- extract_generic_flight_info

Upper == {"A", "B", "C", "D", "E", "F", "G", "H", "I", "J", "K", "L", "M", "N",
          "O", "P", "Q", "R", "S", "T", "U", "V", "W", "X", "Y", "Z"}
NonWord == {" ", ":", "$", ",", "-", "%"}
IsWord(c) == c \notin NonWord

MinOf(S) == CHOOSE x \in S : \A y \in S : x <= y

\* the maximal runs of word characters of a text, from position i on
RECURSIVE WordRunsFrom(_, _)
WordRunsFrom(s, i) ==
    LET starts == {j \in i..Len(s) : IsWord(s[j])} IN
    IF starts = {} THEN <<>>
    ELSE LET b == MinOf(starts)
             e == MinOf({j \in b..Len(s) : j = Len(s) \/ ~IsWord(s[j + 1])})
         IN <<SubSeq(s, b, e)>> \o WordRunsFrom(s, e + 1)

WordRuns(s) == WordRunsFrom(s, 1)

\* [A-Z]{2}\d{3,4} between two word boundaries: a whole word run of that shape
IsFlightNo(w) ==
    /\ Len(w) \in {5, 6}
    /\ w[1] \in Upper
    /\ w[2] \in Upper
    /\ \A i \in 3..Len(w) : w[i] \in Digits

FindFlightNumbers(s) == SelectSeq(WordRuns(s), IsFlightNo)

\* \b(\d{2}:\d{2})\b, scanning left to right without overlap
TimeAt(s, i) ==
    /\ i + 4 <= Len(s)
    /\ s[i] \in Digits /\ s[i + 1] \in Digits
    /\ s[i + 2] = ":"
    /\ s[i + 3] \in Digits /\ s[i + 4] \in Digits
    /\ (i = 1 \/ ~IsWord(s[i - 1]))
    /\ (i + 4 = Len(s) \/ ~IsWord(s[i + 5]))

RECURSIVE TimesFrom(_, _)
TimesFrom(s, i) ==
    LET at == {j \in i..Len(s) : TimeAt(s, j)} IN
    IF at = {} THEN <<>>
    ELSE LET b == MinOf(at) IN <<SubSeq(s, b, b + 4)>> \o TimesFrom(s, b + 5)

FindTimes(s) == TimesFrom(s, 1)

\* (\d{3,5}) with optional glyph, spaces and suffix around it: every digit run
\* is cut greedily into groups of five, a rest shorter than three is no match
RECURSIVE Chunks(_)
Chunks(run) ==
    IF Len(run) < 3 THEN <<>>
    ELSE LET n == Min(5, Len(run)) IN
         <<SubSeq(run, 1, n)>> \o Chunks(SubSeq(run, n + 1, Len(run)))

RECURSIVE PricesFrom(_, _)
PricesFrom(s, i) ==
    LET starts == {j \in i..Len(s) : s[j] \in Digits} IN
    IF starts = {} THEN <<>>
    ELSE LET b == MinOf(starts)
             e == MinOf({j \in b..Len(s) : j = Len(s) \/ s[j + 1] \notin Digits})
         IN Chunks(SubSeq(s, b, e)) \o PricesFrom(s, e + 1)

FindPrices(s) == PricesFrom(s, 1)

RECURSIVE FirstSeenUnique(_)
FirstSeenUnique(seq) ==
    IF seq = <<>> THEN <<>>
    ELSE LET front == FirstSeenUnique(SubSeq(seq, 1, Len(seq) - 1))
             x == seq[Len(seq)]
         IN IF \E i \in 1..Len(front) : front[i] = x THEN front ELSE Append(front, x)

\* set(flight_numbers): the distinct matches
GenericNoDedupe(matches) == matches
GenericUnique(matches) == FirstSeenUnique(matches)

\* list(set(...)) fixes no order: the orders drawn are the rotations of the
\* first-seen order and of its reverse (every order, up to three elements)
Reverse(u) == [i \in 1..Len(u) |-> u[Len(u) + 1 - i]]
Rotate(u, k) == SubSeq(u, k + 1, Len(u)) \o SubSeq(u, 1, k)
Orderings(u) ==
    IF u = <<>> THEN {<<>>}
    ELSE {Rotate(u, k) : k \in 0..(Len(u) - 1)}
         \cup {Rotate(Reverse(u), k) : k \in 0..(Len(u) - 1)}

\* for i, flight_no in enumerate(unique_flights[:10])
GenericRecords(unique_flights, times, prices) ==
    [n \in 1..Min(Len(unique_flights), MaxGeneric) |->
        LET i == n - 1 IN
        [flight_no |-> unique_flights[n],
         depart_time |-> IF i * 2 < Len(times) THEN times[i * 2 + 1] ELSE <<>>,
         arrive_time |-> IF i * 2 + 1 < Len(times) THEN times[i * 2 + 2] ELSE <<>>,
         price |-> IF i < Len(prices) THEN prices[n] ELSE <<>>]]

\* body texts
DigitSeq == <<"0", "1", "2", "3", "4", "5", "6", "7", "8", "9">>
FlightNo(i) == <<"C", "A", "1", DigitSeq[(i \div 10) + 1], DigitSeq[(i % 10) + 1]>>

RECURSIVE Join(_)
Join(tokens) ==
    IF tokens = <<>> THEN <<>>
    ELSE IF Len(tokens) = 1 THEN tokens[1]
         ELSE tokens[1] \o <<" ">> \o Join(Tail(tokens))

RECURSIVE Blocks(_, _)
Blocks(i, d) ==
    IF i > d.nf THEN <<>>
    ELSE <<FlightNo(i)>>
         \o (IF d.times THEN <<<<"0", "8", ":", "3", "0">>, <<"1", "0", ":", "4", "5">>>> ELSE <<>>)
         \o (IF d.prices THEN <<<<"$", "1", "2", "3", "0">>>> ELSE <<>>)
         \o Blocks(i + 1, d)

BodyTokens(d) ==
    Blocks(1, d)
    \o (IF d.dup /\ d.nf >= 1 THEN <<FlightNo(1), FlightNo(d.nf)>> ELSE <<>>)
    \o (IF d.junk THEN <<<<"x", "C", "A", "1", "0", "1">>, <<"C", "A", "1", "2">>, <<"8", ":", "3", "0">>, <<"9", "9">>>> ELSE <<>>)

BodyShapes == [nf : 0..MaxFlightNos, dup : BOOLEAN, times : BOOLEAN,
               prices : BOOLEAN, junk : BOOLEAN]

Bodies == {Join(BodyTokens(d)) : d \in BodyShapes}

\* the call of extract_generic_flight_info(page); the element loop is over and
\* its variables are dead from here on
CallGeneric ==
    /\ pc = "fallback"
    /\ pc' = "generic"
    /\ flight_elements' = <<>>
    /\ ei' = 0
    /\ last' = NoLast
    /\ UNCHANGED <<runVars, trace, popupVars, submitVars, sel_i, flights, structured,
                   fallback, body, generic_out>>

GenericExtract ==
    /\ pc = "generic"
    /\ \/ /\ body' = [ok |-> FALSE, text |-> <<>>]
          /\ generic_out' = <<>>
       \/ \E t \in Bodies :
            LET flight_numbers == FindFlightNumbers(t)
                times == FindTimes(t)
                prices == FindPrices(t)
            IN \E unique_flights \in Orderings(GenericUnique(flight_numbers)) :
                  /\ body' = [ok |-> TRUE, text |-> t]
                  /\ generic_out' = GenericRecords(unique_flights, times, prices)
    /\ pc' = "generic_ret"
    /\ UNCHANGED <<runVars, trace, popupVars, submitVars, sel_i, flight_elements, ei,
                   last, flights, structured, fallback>>

\* flights = await extract_generic_flight_info(page)
FallbackAssign ==
    /\ pc = "generic_ret"
    /\ flights' = generic_out
    /\ pc' = "extract_done"
    /\ UNCHANGED <<runVars, trace, popupVars, submitVars, sel_i, flight_elements, ei,
                   last, structured, fallback, body, generic_out>>

ExtractReturn ==
    /\ pc = "extract_done"
    /\ pc' = "report"
    /\ extracted' = IF flights = <<>> THEN "empty" ELSE "nonempty"
    /\ sel_i' = 0
    /\ flight_elements' = <<>>
    /\ ei' = 0
    /\ last' = NoLast
    /\ structured' = 0
    /\ fallback' = FALSE
    /\ body' = NoBody
    /\ generic_out' = <<>>
    /\ UNCHANGED <<browser, pending, outcome, printed, trace, popupVars, submitVars,
                   flights>>

\* ------------------------------------------------------- report and teardown

\* if flights: the list, else: the "no flights extracted" message
ReportSilentWhenEmpty(fl) == IF fl # <<>> THEN {"list"} ELSE {}
ReportForms(fl) == IF fl # <<>> THEN {"list"} ELSE {"empty"}

Report ==
    /\ pc = "report"
    /\ printed' = printed \cup ReportForms(flights)
    /\ trace' = Append(trace, "report")
    /\ flights' = <<>>
    /\ pc' = "hold30"
    /\ UNCHANGED <<browser, pending, outcome, extracted, popupVars, submitVars,
                   sel_i, flight_elements, ei, last, structured, fallback, body,
                   generic_out>>

Hold30 ==
    /\ pc = "hold30"
    /\ trace' = Append(trace, "hold30")
    /\ \E r \in {"ok", "raises"} : pc' = IF r = "ok" THEN "finally" ELSE "handler"
    /\ UNCHANGED <<runVars, popupVars, submitVars, extractVars>>

\* except Exception: print, traceback, screenshot
Handler ==
    /\ pc = "handler"
    /\ \E r \in {"ok", "raises"} :
         IF r = "ok"
         THEN /\ trace' = trace \o <<"handler", "screenshot_call", "screenshot_written">>
              /\ pc' = "hold60"
              /\ pending' = pending
         ELSE /\ trace' = trace \o <<"handler", "screenshot_call">>
              /\ pc' = "finally"
              /\ pending' = TRUE
    /\ UNCHANGED <<browser, outcome, printed, extracted, popupVars, submitVars,
                   extractVars>>

Hold60 ==
    /\ pc = "hold60"
    /\ trace' = Append(trace, "hold60")
    /\ \E r \in {"ok", "raises"} : pending' = (r = "raises")
    /\ pc' = "finally"
    /\ UNCHANGED <<browser, outcome, printed, extracted, popupVars, submitVars,
                   extractVars>>

\* finally: await browser.close()
Finally ==
    /\ pc = "finally"
    /\ trace' = Append(trace, "close")
    /\ \E r \in {"ok", "raises"} :
         /\ browser' = IF r = "ok" THEN "closed" ELSE browser
         /\ outcome' = IF r = "ok" /\ ~pending THEN "returned" ELSE "raised"
    /\ pc' = "done"
    /\ UNCHANGED <<pending, printed, extracted, popupVars, submitVars, extractVars>>

\* ------------------------------------------------------------ specification

Next ==
    \/ Launch \/ NewContext \/ NewPage
    \/ Goto1 \/ Popups1 \/ Goto2 \/ Popups2
    \/ HPPattern \/ HPReturn
    \/ FillDepart \/ FillArrive
    \/ SubmitStart \/ SubmitCandidate \/ SubmitExhausted
    \/ WaitResults \/ Popups3
    \/ ExtractStart \/ TrySelector \/ CascadeExhausted
    \/ ProcessElement \/ StructuredDone
    \/ CallGeneric \/ GenericExtract \/ FallbackAssign \/ ExtractReturn
    \/ Report \/ Hold30 \/ Handler \/ Hold60 \/ Finally

Spec == Init /\ [][Next]_vars

\* ------------------------------------------------------------------ claims

InTrace(e) == \E k \in 1..Len(trace) : trace[k] = e
IsPrefix(a, b) == Len(a) <= Len(b) /\ SubSeq(b, 1, Len(a)) = a
HasBasicInfo(info) == Truthy(info, "flight_no") \/ Truthy(info, "price")

\* C1: once the browser has been launched, browser.close is called on every
\* exit path of the run, a failure of new_context or new_page included.
C1_ClosedOnEveryExit ==
    (pc = "done" /\ browser # "none") => InTrace("close")

\* C2: every run that entered the main sequence has printed exactly one of the
\* two report forms when it ends, also when a step of the sequence raised.
C2_ReportOnEveryRun ==
    (pc = "done" /\ InTrace("goto1")) => Cardinality(printed) = 1

\* C2 (amended): a run in which extract_flight_info returned has printed
\* exactly one report form once the report step is past, the list when the
\* result is non-empty and the "no flights" message when it is empty; a run in
\* which a step before the report raised has printed neither.
C2_ReportWhenExtracted ==
    /\ (extracted # "none" /\ pc # "report")
          => printed = (IF extracted = "nonempty" THEN {"list"} ELSE {"empty"})
    /\ (extracted = "none" \/ pc = "report") => printed = {}

C2_Witness ==
    pc = "done" /\ extracted = "empty" /\ printed = {"empty"}

TimeoutAt == {k \in 1..Len(trace) : trace[k] = "nav_timeout"}
AfterTimeout ==
    LET k == CHOOSE k \in TimeoutAt : TRUE IN SubSeq(trace, k + 1, Len(trace))
ErrorPathWritten ==
    <<"handler", "screenshot_call", "screenshot_written", "hold60", "close">>
ErrorPathNotWritten == <<"handler", "screenshot_call", "close">>

\* C3: after a goto timeout no later pipeline step runs, the handler runs, the
\* screenshot is written, and then the browser is closed, in that order.
C3_TimeoutScreenshotClose ==
    (pc = "done" /\ TimeoutAt # {}) => AfterTimeout = ErrorPathWritten

\* C3 (amended): after a goto timeout no later pipeline step runs, the handler
\* runs and calls page.screenshot; the file is written when that call returns,
\* and whether it returns or raises, browser.close is called afterwards.
C3_TimeoutHandlerClose ==
    TimeoutAt # {} =>
        /\ IsPrefix(AfterTimeout, ErrorPathWritten)
              \/ IsPrefix(AfterTimeout, ErrorPathNotWritten)
        /\ pc = "done" => AfterTimeout \in {ErrorPathWritten, ErrorPathNotWritten}

C3_Witness ==
    /\ pc = "done"
    /\ InTrace("goto2")
    /\ TimeoutAt # {}
    /\ AfterTimeout = ErrorPathWritten

\* C4: a processed card element is in the structured output if and only if its
\* flight_no or its price is non-empty after the field-level attempts.
C4_KeptIffBasicInfo ==
    last.elem > 0 => (last.kept <=> HasBasicInfo(last.info))

\* C5: a page of exactly 3 cards, each with airline and flight number, two
\* times, two airports and a price, yields exactly 3 complete records and the
\* fallback extractor is not invoked.
CompleteKinds == {"full", "basic", "norate"}
CompleteKeys == {"airline", "flight_no", "depart_time", "arrive_time",
                 "depart_airport", "arrive_airport", "price"}
C5_ThreeCardsThreeRecords ==
    (/\ pc \in {"fallback", "extract_done"}
     /\ Len(flight_elements) = 3
     /\ \A i \in 1..3 : flight_elements[i] \in CompleteKinds)
    => /\ pc = "extract_done"
       /\ ~fallback
       /\ Len(flights) = 3
       /\ \A i \in 1..3 : \A k \in CompleteKeys : Truthy(flights[i], k)

\* C6: handle_popups never raises to its caller and attempts all five patterns
\* in list order, whatever the earlier patterns did.
C6_PopupsAllPatternsNoRaise ==
    /\ [](pc = "hp_loop" =>
            /\ Len(hp_log) = hp_i - 1
            /\ \A k \in 1..Len(hp_log) : hp_log[k].pattern = k)
    /\ [][pc = "hp_loop" =>
            \/ pc' = "hp_loop"
            \/ pc' = hp_ret /\ Len(hp_log) = 5]_vars

C6_Witness ==
    /\ pc = "hp_loop"
    /\ Len(hp_log) = 5
    /\ hp_log[1].clicked /\ ~hp_log[1].failed
    /\ hp_log[2].failed
    /\ hp_log[5].clicked

FlightNosOf(recs) == {recs[i].flight_no : i \in 1..Len(recs)}
Range(seq) == {seq[i] : i \in 1..Len(seq)}
BodyMatches == Range(FindFlightNumbers(body.text))

\* C7: extract_generic_flight_info returns at most 10 records, never more than
\* the number of distinct flight-number matches in the body text, each with a
\* distinct flight number, and the empty sequence when reading the body fails.
C7_GenericBounded ==
    pc = "generic_ret" =>
        /\ Len(generic_out) <= 10
        /\ Len(generic_out) <= Cardinality(BodyMatches)
        /\ Cardinality(FlightNosOf(generic_out)) = Len(generic_out)
        /\ FlightNosOf(generic_out) \subseteq BodyMatches
        /\ ~body.ok => generic_out = <<>>

C7_Witness ==
    /\ pc = "generic_ret"
    /\ body.ok
    /\ Cardinality(BodyMatches) > 10
    /\ Len(FindFlightNumbers(body.text)) > Cardinality(BodyMatches)
    /\ Len(generic_out) = 10

\* C8: when one sub-read of a card raises, the remaining sub-reads of that
\* element are still attempted and the record is still put to the keep test.
C8_SubReadsIndependent ==
    (last.elem > 0 /\ last.raised # 0)
    => /\ Len(last.attempted) = Len(SubReads)
       /\ last.kept <=> HasBasicInfo(last.info)

Issued == {k \in 1..Len(sb_log) : sb_log[k].what \in {"click_ok", "click_raises"}}
Clicked == {k \in 1..Len(sb_log) : sb_log[k].what = "click_ok"}

\* C9: the first submit candidate found visible is clicked and no later one is
\* tried, so at most one click is issued per run.
C9_AtMostOneClickIssued ==
    /\ Cardinality(Issued) <= 1
    /\ \A k \in Issued : k = Len(sb_log)

\* C9 (amended): the candidates are tried in list order; the first one whose
\* click returns ends the loop, so at most one click succeeds and no candidate
\* is tried after it; a candidate whose visibility check or click raises is
\* skipped and the next one is tried; when no click succeeds the run goes on
\* to the result wait after the last candidate, without error.
C9_StopAfterSuccessfulClick ==
    /\ \A k \in 1..Len(sb_log) : sb_log[k].cand = k
    /\ Cardinality(Clicked) <= 1
    /\ \A k \in Clicked : k = Len(sb_log)
    /\ pc = "submit_loop" => Clicked = {}
    /\ pc = "wait_results" => (Clicked # {} \/ Len(sb_log) = 5)

C9_Witness ==
    /\ pc = "wait_results"
    /\ Len(sb_log) = 3
    /\ sb_log[1].what = "no_click"
    /\ sb_log[2].what = "click_raises"
    /\ sb_log[3].what = "click_ok"

\* C10: every record extract_flight_info returns has a non-empty flight_no or
\* price; the fallback is entered exactly when the structured phase produced
\* no record, and its output is then the whole result.
C10_ReturnedRecordsHaveBasicInfo ==
    pc = "extract_done" =>
        /\ \A i \in 1..Len(flights) : HasBasicInfo(flights[i])
        /\ fallback <=> structured = 0
        /\ fallback => flights = generic_out
        /\ ~fallback => Len(flights) = structured

C10_Witness ==
    /\ pc = "extract_done"
    /\ fallback
    /\ Len(flights) >= 2
    /\ \E i \in 1..Len(flights) : ~Truthy(flights[i], "depart_time")
    /\ \A i \in 1..Len(flights) : Truthy(flights[i], "flight_no")

====
